---- MODULE Spec2Model ----
(***************************************************************************)
(* The Table derive of ormx-macros: a table descriptor goes through         *)
(* derive_table (lib.rs), whose schema part is impl_schema (table/schema.rs)*)
(* and its four sub-emitters name, columns, arguments and from_row.  The   *)
(* sub-emitters build source text with format!, join it and parse it back   *)
(* into a token stream with .parse().unwrap(); the generated functions are *)
(* then run against an argument collector and a row.                        *)
(*                                                                         *)
(* Text is a sequence of chunks.  A chunk is either one character of an     *)
(* interpolated string ("a", "DQ" for the double quote, "BS" for the        *)
(* backslash, "COMMA") or one lexical piece of a format template ("SP",     *)
(* "LPAREN", "row", ...).                                                   *)
(***************************************************************************)
EXTENDS Integers, Sequences, FiniteSets, TLC

\* ------------------------------------------------------------------ bounds

\* Largest number of fields of a table descriptor.
MaxFields == 3

\* Largest number of fields of a table descriptor that has column overrides.
MaxColFields == 2

\* Largest total number of characters over the column overrides of a
\* descriptor, and largest number of characters of a table name.
MaxColChars == 3

\* ------------------------------------------------------------ text, chunks

\* Characters a column override is made of.
ColumnAlphabet == {"a", "DQ", "BS", "COMMA"}

\* Identifier characters: the field identifiers are one letter each.
Letters == {"a", "b", "c", "d", "e"}

\* Identifiers spelled out by the format templates of schema.rs.
TemplateIdents == {"row", "try_get", "arguments", "add", "self"}

IdentChunks == Letters \cup TemplateIdents

\* Result<TokenStream, LexError> of a parse.
LexOk(toks) == [ok |-> TRUE, tokens |-> toks]

LexError == [ok |-> FALSE, tokens |-> <<>>]

RECURSIVE Concat(_)
\* String::collect / concatenation of a sequence of texts.
Concat(texts) ==
    IF texts = <<>> THEN <<>> ELSE Head(texts) \o Concat(Tail(texts))

RECURSIVE Join(_, _)
\* itertools::Itertools::join: the texts with sep between each two.
Join(texts, sep) ==
    IF texts = <<>> THEN <<>>
    ELSE IF Len(texts) = 1 THEN texts[1]
    ELSE texts[1] \o sep \o Join(Tail(texts), sep)

\* ---------------------------------------------------- str::parse::<TokenStream>

Tok(kind, value) == [kind |-> kind, value |-> value]

\* The lexer behind str::parse::<TokenStream>(), as a state machine over the
\* chunks.  mode is "code" (between tokens), "ident" (inside an identifier),
\* "str" (inside a string literal), "esc" (after a backslash inside a string
\* literal), "suffix" (right after a closing quote), "badsuffix" (identifier
\* characters glued to a closing quote: a suffixed literal, which lexes and
\* is no valid string expression) or "error" (the text is rejected).  cur is
\* the value of the token being read, depth the number of open parentheses.
LexStart == [mode |-> "code", cur |-> <<>>, depth |-> 0, toks |-> <<>>]

LexFail(st) == [st EXCEPT !.mode = "error"]

\* The token being read ends: it joins the tokens read so far.
LexFlush(st) ==
    CASE st.mode = "ident" ->
            [st EXCEPT !.mode = "code", !.cur = <<>>,
                       !.toks = Append(@, Tok("ident", st.cur))]
      [] st.mode = "suffix" ->
            [st EXCEPT !.mode = "code", !.cur = <<>>,
                       !.toks = Append(@, Tok("lit", st.cur))]
      [] st.mode = "badsuffix" ->
            [st EXCEPT !.mode = "code", !.cur = <<>>,
                       !.toks = Append(@, Tok("suffixed", st.cur))]
      [] OTHER -> st

\* One chunk met between tokens.
LexCode(st, c) ==
    IF c = "SP" THEN st
    ELSE IF c = "DQ" THEN [st EXCEPT !.mode = "str", !.cur = <<>>]
    ELSE IF c = "BS" THEN LexFail(st)
    ELSE IF c \in IdentChunks THEN [st EXCEPT !.mode = "ident", !.cur = <<c>>]
    ELSE IF c = "LPAREN"
        THEN [st EXCEPT !.depth = @ + 1, !.toks = Append(@, Tok("open", <<>>))]
    ELSE IF c = "RPAREN"
        THEN IF st.depth = 0 THEN LexFail(st)
             ELSE [st EXCEPT !.depth = @ - 1, !.toks = Append(@, Tok("close", <<>>))]
    ELSE [st EXCEPT !.toks = Append(@, Tok("punct", <<c>>))]

\* One chunk of the text.  A string literal takes every chunk up to its
\* closing quote as content; of the escapes only \" and \\ can be spelled in
\* ColumnAlphabet, every other escape is rejected.
LexStep(st, c) ==
    CASE st.mode = "error" -> st
      [] st.mode = "str" ->
            IF c = "DQ" THEN [st EXCEPT !.mode = "suffix"]
            ELSE IF c = "BS" THEN [st EXCEPT !.mode = "esc"]
            ELSE [st EXCEPT !.cur = Append(@, c)]
      [] st.mode = "esc" ->
            IF c \in {"DQ", "BS"} THEN [st EXCEPT !.mode = "str", !.cur = Append(@, c)]
            ELSE LexFail(st)
      [] st.mode \in {"suffix", "badsuffix"} ->
            IF c \in IdentChunks THEN [st EXCEPT !.mode = "badsuffix"]
            ELSE LexCode(LexFlush(st), c)
      [] st.mode = "ident" ->
            IF c \in IdentChunks THEN [st EXCEPT !.cur = Append(@, c)]
            ELSE LexCode(LexFlush(st), c)
      [] OTHER -> LexCode(st, c)

RECURSIVE LexFrom(_, _, _, _)
\* The lexer run over text[lo..hi] from state st.
LexFrom(st, text, lo, hi) ==
    IF lo > hi THEN st
    ELSE IF lo = hi THEN LexStep(st, text[lo])
    ELSE LET mid == (lo + hi) \div 2
             left == LexFrom(st, text, lo, mid)
         IN  IF left.mode = "error" THEN left ELSE LexFrom(left, text, mid + 1, hi)

\* str::parse::<TokenStream>(): Ok(tokens), or Err(LexError) for a rejected
\* chunk, an unterminated string literal or an unbalanced parenthesis.
Parse(text) ==
    LET end == LexFrom(LexStart, text, 1, Len(text))
    IN  IF end.mode \in {"error", "str", "esc"} \/ end.depth # 0 THEN LexError
        ELSE LexOk(LexFlush(end).toks)

\* ------------------------------------------------------- the table descriptor

\* Option<String> of a column override.
NoColumn == [given |-> FALSE, value |-> <<>>]

Column(s) == [given |-> TRUE, value |-> s]

\* TableField::column(): the column override when one is given, otherwise the
\* field name.
column(f) == IF f.column_name.given THEN f.column_name.value ELSE f.field

\* ------------------------------------------------- table/schema.rs: emitters

\* Result of one sub-emitter: the tokens of the emitted function's body, or
\* the panic of .parse().unwrap().
Emitted(toks) == [panicked |-> FALSE, tokens |-> toks]

Panicked == [panicked |-> TRUE, tokens |-> <<>>]

\* Result<TokenStream, LexError>::unwrap().
Unwrap(parsed) == IF parsed.ok THEN Emitted(parsed.tokens) ELSE Panicked

\* fn name: quote! interpolates the table name as a string literal token; no
\* text is formatted or parsed.
name(table) == Emitted(<<Tok("lit", table.table)>>)

\* format!(" \"{}\"", s.column()) of fn columns.
ColumnsItem(s) == <<"SP", "DQ">> \o column(s) \o <<"DQ">>

\* fn columns: the items joined with ", ", parsed, unwrapped.
columns(table) ==
    Unwrap(Parse(Join([i \in 1..Len(table.fields) |-> ColumnsItem(table.fields[i])],
                      <<"COMMA", "SP">>)))

\* format!(" arguments.add(&self.{}); ", s.field) of fn arguments.
ArgumentsItem(s) ==
    <<"SP", "arguments", "DOT", "add", "LPAREN", "AMP", "self", "DOT">>
        \o s.field \o <<"RPAREN", "SEMI", "SP">>

\* arguments binding only what an insert binds: the Id and default fields
\* left out.
arguments_insert_only(table) ==
    LET bound == SelectSeq(table.fields, LAMBDA f : f.role = "Regular")
    IN  Unwrap(Parse(Concat([i \in 1..Len(bound) |-> ArgumentsItem(bound[i])])))

\* fn arguments: the items collected into one String, parsed, unwrapped.
arguments(table) ==
    Unwrap(Parse(Concat([i \in 1..Len(table.fields) |-> ArgumentsItem(table.fields[i])])))

\* format!(" {0}: row.try_get(\"{1}\")?", field.field, field.column()) of fn from_row.
FromRowItem(f) ==
    <<"SP">> \o f.field \o <<"COLON", "SP", "row", "DOT", "try_get", "LPAREN", "DQ">>
        \o column(f) \o <<"DQ", "RPAREN", "QUESTION">>

\* from_row with sqlx's column type override for custom types:
\* row.try_get("column: Override").
from_row_typed(table) ==
    LET item(f) ==
            <<"SP">> \o f.field
                \o <<"COLON", "SP", "row", "DOT", "try_get", "LPAREN", "DQ">>
                \o column(f)
                \o (IF f.custom_type /\ f.ty_override
                    THEN <<"COLON", "SP", "Override">> ELSE <<>>)
                \o <<"DQ", "RPAREN", "QUESTION">>
    IN  Unwrap(Parse(Join([i \in 1..Len(table.fields) |-> item(table.fields[i])],
                          <<"COMMA", "SP">>)))

\* fn from_row: the items joined with ", ", parsed, unwrapped.
from_row(table) ==
    Unwrap(Parse(Join([i \in 1..Len(table.fields) |-> FromRowItem(table.fields[i])],
                      <<"COMMA", "SP">>)))

NoSchema ==
    [panicked |-> FALSE, ident |-> <<>>, name |-> <<>>, columns |-> <<>>,
     arguments |-> <<>>, from_row |-> <<>>]

\* fn impl_schema: the four sub-emitters in order, then the impl block; a
\* panic of any sub-emitter is the panic of impl_schema.
impl_schema(table) ==
    LET n == name(table)
        c == columns(table)
        a == arguments(table)
        r == from_row(table)
    IN  IF n.panicked \/ c.panicked \/ a.panicked \/ r.panicked
        THEN [NoSchema EXCEPT !.panicked = TRUE]
        ELSE [panicked |-> FALSE, ident |-> table.ident, name |-> n.tokens,
              columns |-> c.tokens, arguments |-> a.tokens, from_row |-> r.tokens]

\* ------------------------------------------- the generated code, as compiled

\* The value of `vec![ #fields ]` in the generated columns(): the string
\* literals of a comma-separated list (a trailing comma allowed); any other
\* token sequence does not compile.
RECURSIVE ListOfLiterals(_, _, _)
ListOfLiterals(toks, i, acc) ==
    IF i > Len(toks) THEN [ok |-> TRUE, value |-> acc]
    ELSE IF toks[i].kind # "lit" THEN [ok |-> FALSE, value |-> <<>>]
    ELSE IF i = Len(toks) THEN [ok |-> TRUE, value |-> Append(acc, toks[i].value)]
    ELSE IF toks[i + 1] # Tok("punct", <<"COMMA">>) THEN [ok |-> FALSE, value |-> <<>>]
    ELSE ListOfLiterals(toks, i + 2, Append(acc, toks[i].value))

ColumnsValue(toks) == ListOfLiterals(toks, 1, <<>>)

\* The statements of the generated arguments(): each one is
\* `arguments.add(&self.<field>);` and adds that field; anything else does
\* not compile.
ArgumentsStatement(toks, i) ==
    /\ i + 9 <= Len(toks)
    /\ toks[i] = Tok("ident", <<"arguments">>)
    /\ toks[i + 1] = Tok("punct", <<"DOT">>)
    /\ toks[i + 2] = Tok("ident", <<"add">>)
    /\ toks[i + 3].kind = "open"
    /\ toks[i + 4] = Tok("punct", <<"AMP">>)
    /\ toks[i + 5] = Tok("ident", <<"self">>)
    /\ toks[i + 6] = Tok("punct", <<"DOT">>)
    /\ toks[i + 7].kind = "ident"
    /\ toks[i + 8].kind = "close"
    /\ toks[i + 9] = Tok("punct", <<"SEMI">>)

RECURSIVE ArgumentsAdds(_, _, _)
ArgumentsAdds(toks, i, acc) ==
    IF i > Len(toks) THEN [ok |-> TRUE, value |-> acc]
    ELSE IF ~ArgumentsStatement(toks, i) THEN [ok |-> FALSE, value |-> <<>>]
    ELSE ArgumentsAdds(toks, i + 10, Append(acc, toks[i + 7].value))

\* One field initialiser of `Self { #from_row }` starting at token i:
\* `<field>: row.try_get(<one string literal>)?`, the call's argument list
\* with or without a trailing comma.  len is its number of tokens, 0 when the
\* tokens are no such initialiser.
FromRowInitLen(toks, i) ==
    IF /\ i + 6 <= Len(toks)
       /\ toks[i].kind = "ident"
       /\ toks[i + 1] = Tok("punct", <<"COLON">>)
       /\ toks[i + 2] = Tok("ident", <<"row">>)
       /\ toks[i + 3] = Tok("punct", <<"DOT">>)
       /\ toks[i + 4] = Tok("ident", <<"try_get">>)
       /\ toks[i + 5].kind = "open"
       /\ toks[i + 6].kind = "lit"
    THEN IF /\ i + 8 <= Len(toks)
            /\ toks[i + 7].kind = "close"
            /\ toks[i + 8] = Tok("punct", <<"QUESTION">>)
         THEN 9
         ELSE IF /\ i + 9 <= Len(toks)
                 /\ toks[i + 7] = Tok("punct", <<"COMMA">>)
                 /\ toks[i + 8].kind = "close"
                 /\ toks[i + 9] = Tok("punct", <<"QUESTION">>)
         THEN 10
         ELSE 0
    ELSE 0

RECURSIVE FromRowInits(_, _, _)
\* The field initialisers of the generated from_row(), in the order written:
\* which field is assigned the read of which column.
FromRowInits(toks, i, acc) ==
    IF i > Len(toks) THEN [ok |-> TRUE, value |-> acc]
    ELSE LET len == FromRowInitLen(toks, i)
             init == [field |-> toks[i].value, column |-> toks[i + 6].value]
         IN  IF len = 0 THEN [ok |-> FALSE, value |-> <<>>]
             ELSE IF i + len > Len(toks) THEN [ok |-> TRUE, value |-> Append(acc, init)]
             ELSE IF toks[i + len] # Tok("punct", <<"COMMA">>)
                 THEN [ok |-> FALSE, value |-> <<>>]
             ELSE FromRowInits(toks, i + len + 1, Append(acc, init))

Range(seq) == {seq[i] : i \in DOMAIN seq}

FieldNames(table) == {table.fields[i].field : i \in DOMAIN table.fields}

\* The impl block of impl_schema compiles for the record type of the table:
\* each function body is of its shape, arguments() names fields of the record,
\* and the struct literal of from_row() initialises every field exactly once.
Compiles(schema, table) ==
    LET cols == ColumnsValue(schema.columns)
        adds == ArgumentsAdds(schema.arguments, 1, <<>>)
        inits == FromRowInits(schema.from_row, 1, <<>>)
    IN  /\ ~schema.panicked
        /\ cols.ok
        /\ adds.ok
        /\ Range(adds.value) \subseteq FieldNames(table)
        /\ inits.ok
        /\ Len(inits.value) = Len(table.fields)
        /\ {inits.value[i].field : i \in DOMAIN inits.value} = FieldNames(table)

\* The generated columns().
GenColumns(schema) == ColumnsValue(schema.columns).value

\* The generated arguments(&self, arguments): one add per statement, in order.
GenArguments(schema, instance, collector) ==
    LET adds == ArgumentsAdds(schema.arguments, 1, <<>>).value
    IN  collector \o [i \in 1..Len(adds) |-> instance[adds[i]]]

\* sqlx Row::try_get(name): every outcome a row can give for the name.  A
\* missing column is ColumnNotFound, a cell that does not decode is
\* ColumnDecode; with several columns of that name the driver picks one.
try_get(row, col) ==
    LET hits == {i \in DOMAIN row : row[i].name = col}
    IN  IF hits = {}
        THEN {[ok |-> FALSE, value |-> "none",
               error |-> [kind |-> "ColumnNotFound", column |-> col]]}
        ELSE {IF row[i].decodes
              THEN [ok |-> TRUE, value |-> row[i].value,
                    error |-> [kind |-> "none", column |-> <<>>]]
              ELSE [ok |-> FALSE, value |-> "none",
                    error |-> [kind |-> "ColumnDecode", column |-> col]] : i \in hits}

NoError == [kind |-> "none", column |-> <<>>]

NoInstance == [f \in {} |-> "none"]

\* .unwrap() in the place of `?`: a failed read panics.
EarlyReturnUnwrap(error, reads) ==
    [ok |-> FALSE, panicked |-> TRUE, instance |-> NoInstance, error |-> NoError,
     reads |-> reads]

\* The `?` after a failed read: from_row returns at once with the driver's
\* error as its Err, and no instance is built.
EarlyReturn(error, reads) ==
    [ok |-> FALSE, panicked |-> FALSE, instance |-> NoInstance, error |-> error,
     reads |-> reads]

RECURSIVE FromRowRun(_, _, _, _, _)
\* `Ok(Self { f1: row.try_get("c1")?, f2: ... })`: the reads in the order
\* written, each value assigned to the field it is written for.  reads logs
\* the columns asked of the row.  The result is the set of outcomes the row
\* allows.
FromRowRun(inits, i, row, acc, reads) ==
    IF i > Len(inits)
    THEN {[ok |-> TRUE, panicked |-> FALSE, instance |-> acc, error |-> NoError,
           reads |-> reads]}
    ELSE UNION {
           IF got.ok
           THEN FromRowRun(inits, i + 1, row,
                           [f \in DOMAIN acc \cup {inits[i].field} |->
                               IF f = inits[i].field THEN got.value ELSE acc[f]],
                           Append(reads, inits[i].column))
           ELSE {EarlyReturn(got.error, Append(reads, inits[i].column))}
           : got \in try_get(row, inits[i].column)}

\* The generated from_row(row).
GenFromRow(schema, row) ==
    FromRowRun(FromRowInits(schema.from_row, 1, <<>>).value, 1, row, NoInstance, <<>>)

\* -------------------------------------- validation and the Insert artifact

Roles == {"Id", "Default", "Regular"}

IdCount(table) == Cardinality({i \in DOMAIN table.fields : table.fields[i].role = "Id"})

\* Semantic Model Builder: every violated cross-field rule, aggregated.
ModelErrors(table) ==
    (IF IdCount(table) = 0 THEN {"MissingId"} ELSE {})
    \cup (IF IdCount(table) > 1 THEN {"DuplicateId"} ELSE {})
    \cup (IF \E i \in DOMAIN table.fields :
                table.fields[i].custom_type /\ ~table.fields[i].ty_override
          THEN {"MissingTypeOverride"} ELSE {})

Valid(table) == ModelErrors(table) = {}

\* An Insert type that also leaves out the fields with accessors.
InsertFieldsWithoutAccessors(table) ==
    LET keep == SelectSeq(table.fields, LAMBDA f : f.role = "Regular" /\ f.accessors = {})
    IN  [i \in 1..Len(keep) |-> keep[i].field]

\* Insert Emitter: the fields of the Insert type, in declaration order.
InsertFields(table) ==
    LET keep == SelectSeq(table.fields, LAMBDA f : f.role = "Regular")
    IN  [i \in 1..Len(keep) |-> keep[i].field]

NoInsert == [present |-> FALSE, fields |-> <<>>]

\* table::derive: Err with the model errors, or Ok with the emitted
\* fragments (the schema impl, and the Insert type of an insertable table).
derive(table) ==
    IF ~Valid(table)
    THEN [kind |-> "Err", errors |-> ModelErrors(table), schema |-> NoSchema,
          insert |-> NoInsert]
    ELSE LET schema == impl_schema(table)
         IN  IF schema.panicked
             THEN [kind |-> "panic", errors |-> {}, schema |-> NoSchema,
                   insert |-> NoInsert]
             ELSE [kind |-> "Ok", errors |-> {}, schema |-> schema,
                   insert |-> IF table.insertable
                              THEN [present |-> TRUE, fields |-> InsertFields(table)]
                              ELSE NoInsert]

\* ------------------------------------------------------ lib.rs: derive_table

NoOutput == [kind |-> "none", errors |-> {}, schema |-> NoSchema, insert |-> NoInsert]

\* derive_table with Err(_) => an empty token stream.
derive_table_swallow(table) ==
    LET r == derive(table)
    IN  CASE r.kind = "Ok" -> [r EXCEPT !.kind = "tokens"]
          [] r.kind = "Err" -> [NoOutput EXCEPT !.kind = "tokens"]
          [] OTHER -> [NoOutput EXCEPT !.kind = "panic"]

\* fn derive_table: Ok(ok) => ok, Err(err) => err.to_compile_error(); a panic
\* of the emitters leaves the derive without output.
derive_table(table) ==
    LET r == derive(table)
    IN  CASE r.kind = "Ok" -> [r EXCEPT !.kind = "tokens"]
          [] r.kind = "Err" ->
                [kind |-> "compile_error", errors |-> r.errors, schema |-> NoSchema,
                 insert |-> NoInsert]
          [] OTHER -> [NoOutput EXCEPT !.kind = "panic"]

\* ------------------------------------------------------------------- inputs

LetterSeq == <<"a", "b", "c", "d", "e">>

\* The identifier of the i-th declared field.
FieldIdent(i) == <<LetterSeq[i]>>

Field(i, col, role, custom, override, accessors) ==
    [field |-> FieldIdent(i), column_name |-> col, role |-> role,
     custom_type |-> custom, ty_override |-> override, accessors |-> accessors]

Table(ident, tname, fields, insertable) ==
    [ident |-> ident, table |-> tname, fields |-> fields, insertable |-> insertable]

\* Every string of at most k characters.
Strings(k) == UNION {[1..m -> ColumnAlphabet] : m \in 0..k}

\* (custom_type, type override recorded) of a field.
CustomOptions == {<<FALSE, FALSE>>, <<TRUE, TRUE>>, <<TRUE, FALSE>>}

AccessorOptions == {{}, {"GetOptional"}, {"Set"}}

\* The record-level attributes read before the fields: the record's
\* identifier, the table name, insertable.
TableAttributes ==
    {Table(<<"User">>, <<"users">>, <<>>, ins) : ins \in BOOLEAN}
    \cup {Table(id, tn, <<>>, FALSE) : id \in {<<"User">>, <<"Post">>},
                                       tn \in Strings(MaxColChars)}

RECURSIVE ColumnChars(_)
\* The characters the column overrides of the fields spend.
ColumnChars(fields) ==
    IF fields = <<>> THEN 0
    ELSE Len(Head(fields).column_name.value) + ColumnChars(Tail(fields))

\* A record whose fields so far carry no annotation but column overrides:
\* the first field is the Id, of a plain or of a custom type with its
\* override, the others are regular fields.
PlainAnnotations(t) ==
    /\ ~t.insertable
    /\ \A i \in DOMAIN t.fields :
          /\ t.fields[i].role = (IF i = 1 THEN "Id" ELSE "Regular")
          /\ t.fields[i].custom_type => (i = 1 /\ t.fields[i].ty_override)
          /\ t.fields[i].accessors = {}

\* A record whose fields so far carry no column override.
PlainColumns(t) == \A i \in DOMAIN t.fields : ~t.fields[i].column_name.given

NoCustomTypes(t) == \A i \in DOMAIN t.fields : ~t.fields[i].custom_type

NoAccessors(t) == \A i \in DOMAIN t.fields : t.fields[i].accessors = {}

\* The field declarations that may follow the fields read so far.  The
\* inputs vary, each on its own, the column strings (records of at most
\* MaxColFields fields, the overrides of at most MaxColChars characters in
\* all), the roles with the accessors, and the roles with the custom types
\* (also the combinations validation rejects); a record under another table
\* name or identifier has the one Id field.
FieldChoices(t) ==
    LET i == Len(t.fields) + 1
        plainRole == IF i = 1 THEN "Id" ELSE "Regular"
    IN  IF t.table = <<"users">> /\ t.ident = <<"User">>
        THEN (IF PlainAnnotations(t) /\ i <= MaxColFields
              THEN {Field(i, c, plainRole, cu, cu, {})
                      : c \in {NoColumn} \cup
                              {Column(s) : s \in Strings(MaxColChars - ColumnChars(t.fields))},
                        cu \in IF i = 1 THEN BOOLEAN ELSE {FALSE}}
              ELSE {})
             \cup
             (IF PlainColumns(t) /\ NoCustomTypes(t)
              THEN {Field(i, NoColumn, r, FALSE, FALSE, acc)
                      : r \in Roles, acc \in AccessorOptions}
              ELSE {})
             \cup
             (IF PlainColumns(t) /\ NoAccessors(t)
              THEN {Field(i, NoColumn, r, cu[1], cu[2], {})
                      : r \in Roles, cu \in CustomOptions}
              ELSE {})
        ELSE IF i = 1 THEN {Field(i, NoColumn, plainRole, FALSE, FALSE, {})} ELSE {}

\* Values a field of a record instance holds.
Values == {"u", "v"}

ReadStatus == {"ok", "undecodable", "absent"}

\* A row with columns cols[i] holding vals[i]; status[i] tells whether the
\* column is in the row and whether its cell decodes.
RowOf(cols, vals, status) ==
    LET cells == [i \in 1..Len(cols) |->
                    [name |-> cols[i], value |-> vals[i],
                     decodes |-> status[i] = "ok", present |-> status[i] # "absent"]]
        kept == SelectSeq(cells, LAMBDA c : c.present)
    IN  [i \in 1..Len(kept) |-> [name |-> kept[i].name, value |-> kept[i].value,
                                 decodes |-> kept[i].decodes]]

\* ------------------------------------------------------------ state machine

VARIABLES
    table,      \* the table descriptor handed to the derive
    pc,         \* "input", "derived", "bound", "roundtrip", "read", "again"
    output,     \* what derive_table returned
    self,       \* the record instance given to the generated arguments()
    collector,  \* the argument collector after arguments()
    row,        \* the row given to the generated from_row()
    result,     \* what the generated from_row() returned
    earlier     \* descriptor and output of the derive before a second one

vars == <<table, pc, output, self, collector, row, result, earlier>>

NoResult ==
    [ok |-> FALSE, panicked |-> FALSE, instance |-> NoInstance, error |-> NoError,
     reads |-> <<>>]

NoEarlier == [table |-> Table(<<>>, <<>>, <<>>, FALSE), output |-> NoOutput]

Init ==
    /\ table \in TableAttributes
    /\ pc = "input"
    /\ output = NoOutput
    /\ self = NoInstance
    /\ collector = <<>>
    /\ row = <<>>
    /\ result = NoResult
    /\ earlier = NoEarlier

\* The parser reads the next field declaration of the record.
DeclareField ==
    /\ pc = "input"
    /\ Len(table.fields) < MaxFields
    /\ \E f \in FieldChoices(table) : table' = [table EXCEPT !.fields = Append(@, f)]
    /\ UNCHANGED <<pc, output, self, collector, row, result, earlier>>

\* The compiler expands #[derive(Table)] on the record.
Derive ==
    /\ pc = "input"
    /\ output' = derive_table(table)
    /\ pc' = "derived"
    /\ UNCHANGED <<table, self, collector, row, result, earlier>>

\* The expansion compiled: the generated functions can be called.
Usable == output.kind = "tokens" /\ Compiles(output.schema, table)

\* A caller binds an instance with the generated arguments().
Arguments ==
    /\ pc = "derived"
    /\ Usable
    /\ \E inst \in [FieldNames(table) -> Values] :
          /\ self' = inst
          /\ collector' = GenArguments(output.schema, inst, <<>>)
    /\ pc' = "bound"
    /\ UNCHANGED <<table, output, row, result, earlier>>

\* The bound values come back as a row under the names of columns(), and
\* the generated from_row() reconstructs an instance from it.
RoundTrip ==
    /\ pc = "bound"
    /\ LET cols == GenColumns(output.schema)
       IN  /\ Len(cols) = Len(collector)
           /\ row' = RowOf(cols, collector, [i \in 1..Len(cols) |-> "ok"])
    /\ result' \in GenFromRow(output.schema, row')
    /\ pc' = "roundtrip"
    /\ UNCHANGED <<table, output, self, collector, earlier>>

\* The driver hands the generated from_row() a row in which any of the
\* columns may be missing or may not decode.
FromRow ==
    /\ pc = "derived"
    /\ Usable
    /\ LET cols == GenColumns(output.schema)
       IN  \E status \in [1..Len(cols) -> ReadStatus] :
              row' = RowOf(cols, [i \in 1..Len(cols) |-> "u"], status)
    /\ result' \in GenFromRow(output.schema, row')
    /\ pc' = "read"
    /\ UNCHANGED <<table, output, self, collector, earlier>>

Next == DeclareField \/ Derive \/ Arguments \/ RoundTrip \/ FromRow

Spec == Init /\ [][Next]_vars

\* ------------------------------------------------------ a second derive

\* What the schema fragment is emitted from: the record's identifier, the
\* table name and the ordered (field, column) sequence.
SchemaInputs(t) ==
    <<t.ident, t.table, [i \in 1..Len(t.fields) |-> <<t.fields[i].field, column(t.fields[i])>>]>>

\* Descriptors a second derive is run on: the same descriptor, and the ones
\* that differ from it in one attribute.
Variants(t) ==
    {t, [t EXCEPT !.insertable = ~@], [t EXCEPT !.table = <<"a">>]}
    \cup {[t EXCEPT !.fields[i].role = r] : i \in DOMAIN t.fields, r \in Roles}
    \cup {[t EXCEPT !.fields[i].custom_type = ~@, !.fields[i].ty_override = ~t.fields[i].custom_type]
            : i \in DOMAIN t.fields}
    \cup {[t EXCEPT !.fields[i].accessors = IF @ = {} THEN {"Set"} ELSE {}]
            : i \in DOMAIN t.fields}
    \cup {[t EXCEPT !.fields[i].column_name = Column(column(t.fields[i]))]
            : i \in DOMAIN t.fields}
    \cup {[t EXCEPT !.fields[i].column_name = NoColumn] : i \in DOMAIN t.fields}

\* The derive is expanded a second time, on the same or on another record.
Recompile ==
    /\ pc = "derived"
    /\ earlier' = [table |-> table, output |-> output]
    /\ \E t \in Variants(table) :
          /\ table' = t
          /\ output' = derive_table(t)
    /\ pc' = "again"
    /\ UNCHANGED <<self, collector, row, result>>

NextTwice == DeclareField \/ Derive \/ Recompile

SpecTwice == Init /\ [][NextTwice]_vars

\* ------------------------------------------------------------------ claims

\* The column name of every declared field, in declaration order.
DeclaredColumns(t) == [i \in 1..Len(t.fields) |-> column(t.fields[i])]

\* C1: whenever the derive has emitted a columns() whose body is a list, that
\* list has one entry per declared field and its i-th entry is the column
\* name of the i-th field.
C1_ColumnsMatchDeclaration ==
    (pc = "derived" /\ output.kind = "tokens" /\ ColumnsValue(output.schema.columns).ok)
        => GenColumns(output.schema) = DeclaredColumns(table)

\* C2: after arguments() the collector holds one value per field, in
\* declaration order, and for every position i the i-th value is the value of
\* a field whose column name is the i-th entry of columns().
C2_ArgumentsFollowColumns ==
    pc = "bound"
        => LET cols == GenColumns(output.schema)
           IN  /\ collector = [i \in 1..Len(table.fields) |-> self[table.fields[i].field]]
               /\ Len(cols) = Len(collector)
               /\ \A i \in DOMAIN cols :
                     \E j \in DOMAIN table.fields :
                        /\ column(table.fields[j]) = cols[i]
                        /\ collector[i] = self[table.fields[j].field]

\* C3: binding an instance, pairing columns() with the bound values as a row
\* and reconstructing with from_row() gives back the instance.
C3_RoundTrip ==
    pc = "roundtrip" => (result.ok /\ result.instance = self)

\* Whether a row has a cell of that name that decodes / any cell of that name.
Readable(r, col) == \E i \in DOMAIN r : r[i].name = col /\ r[i].decodes

Present(r, col) == \E i \in DOMAIN r : r[i].name = col

\* C4: from_row() does not panic; it returns Ok, with an instance of every
\* field, only when every read succeeded; when a read fails it returns the
\* error of that read, the first failing one, and no instance.
C4_ReadFailurePropagates ==
    pc \in {"read", "roundtrip"}
        => LET reads == result.reads
               n == Len(reads)
           IN  /\ ~result.panicked
               /\ result.ok =>
                     /\ n = Len(table.fields)
                     /\ \A i \in 1..n : Readable(row, reads[i])
                     /\ DOMAIN result.instance = FieldNames(table)
                     /\ result.error = NoError
               /\ ~result.ok =>
                     /\ n >= 1
                     /\ \A i \in 1..(n - 1) : Readable(row, reads[i])
                     /\ result.instance = NoInstance
                     /\ result.error.column = reads[n]
                     /\ \/ result.error.kind = "ColumnNotFound" /\ ~Present(row, reads[n])
                        \/ /\ result.error.kind = "ColumnDecode"
                           /\ \E i \in DOMAIN row : row[i].name = reads[n] /\ ~row[i].decodes

\* A failing read has happened and from_row() has returned.
C4_Witness == pc = "read" /\ ~result.ok /\ Len(result.reads) = 2

HasCustomWithOverride(t) ==
    \E i \in DOMAIN t.fields : t.fields[i].custom_type /\ t.fields[i].ty_override

HasCustomWithoutOverride(t) ==
    \E i \in DOMAIN t.fields : t.fields[i].custom_type /\ ~t.fields[i].ty_override

\* A token that spells the override type.
MentionsOverride(toks) ==
    \E i \in DOMAIN toks : "Override" \in Range(toks[i].value)

Uncustom(t) ==
    [t EXCEPT !.fields = [i \in DOMAIN t.fields |->
                            [t.fields[i] EXCEPT !.custom_type = FALSE, !.ty_override = FALSE]]]

C6_EmissionTotal ==
    (pc = "derived" /\ Valid(table)) => output.kind = "tokens"

\* C7: with no field or with more than one field marked Id the derive returns
\* the compile error, MissingId or DuplicateId, and no emitted fragment.
C7_IdErrorsStopEmission ==
    pc = "derived"
        => /\ IdCount(table) = 0 => "MissingId" \in output.errors
           /\ IdCount(table) > 1 => "DuplicateId" \in output.errors
           /\ IdCount(table) # 1
                 => /\ output.kind = "compile_error"
                    /\ output.schema = NoSchema
                    /\ ~output.insert.present

C7_Witness == pc = "derived" /\ IdCount(table) = 2 /\ output.kind = "compile_error"

\* The position at which a field is declared.
DeclaredAt(t, f) == CHOOSE i \in DOMAIN t.fields : t.fields[i].field = f

\* C8: the Insert type emitted for a valid insertable descriptor has exactly
\* the fields that are neither the Id nor default, in declaration order,
\* whatever accessors they carry.
C8_InsertFieldSet ==
    (pc = "derived" /\ Valid(table) /\ table.insertable /\ output.kind = "tokens")
        => /\ output.insert.present
           /\ \A i \in DOMAIN table.fields :
                 (table.fields[i].field \in Range(output.insert.fields))
                     <=> table.fields[i].role \notin {"Id", "Default"}
           /\ Range(output.insert.fields) \subseteq FieldNames(table)
           /\ \A j, k \in DOMAIN output.insert.fields :
                 j < k => DeclaredAt(table, output.insert.fields[j])
                             < DeclaredAt(table, output.insert.fields[k])

C8_Witness ==
    /\ pc = "derived" /\ Valid(table) /\ table.insertable /\ output.insert.present
    /\ Len(output.insert.fields) = 2
    /\ \E j \in DOMAIN table.fields :
          /\ table.fields[j].role = "Regular" /\ table.fields[j].accessors # {}
          /\ table.fields[j].field \in Range(output.insert.fields)

C10_FromRowAgreesWithColumns ==
    (pc = "derived" /\ output.kind = "tokens" /\ ColumnsValue(output.schema.columns).ok)
        => LET inits == FromRowInits(output.schema.from_row, 1, <<>>)
               cols == GenColumns(output.schema)
           IN  /\ inits.ok
               /\ Len(cols) = Len(table.fields)
               /\ inits.value = [i \in 1..Len(table.fields) |->
                                   [field |-> table.fields[i].field, column |-> cols[i]]]

====
